---- MODULE Spec2Model ----
(***************************************************************************)
(* paul-ai: a webhook-triggered GroupMe roster bot.                        *)
(*                                                                         *)
(* One webhook request is handled by one run of the handler (POST in       *)
(* src/app/api/webhook/route.ts, handler in src/api/webhook/route.ts).     *)
(* The handler is sequential; its awaits are the step boundaries of the    *)
(* model.  The external collaborators (request body, clock, GroupMe API,   *)
(* Groq API) answer nondeterministically from small sets.                  *)
(***************************************************************************)
EXTENDS Integers, Sequences, FiniteSets, TLC

VARIABLES
    handlerVariant, \* "app" (Next.js POST) or "api" (Vercel handler)
    groqVariant,    \* "lib" (src/lib/groq.ts) or "part_001" (src/unnamed/part_001)
    env,            \* the names of process.env that hold a non-empty value
    pc,             \* position of the handler
    payload,        \* the request body being handled
    intent,         \* const intent (route.ts:64)
    clock,          \* the instant new Date() returned while resolving the window
    dateRange,      \* const dateRange (route.ts:68)
    messages,       \* const messages (route.ts:72)
    completion,     \* the delegate's reply consumed by the step just taken
    analysis,       \* const analysis (route.ts:76)
    responseText,   \* const responseText (route.ts:85)
    error,          \* the value caught by the handler's catch (route.ts:99)
    postError,      \* the value caught around the courtesy post (route.ts:112)
    trace,          \* handler steps started in this request, in order
    calls,          \* external calls made in this request, in order
    response,       \* what the caller receives
    fetcher,        \* the locals of the history fetch while it is unfolded
    posted          \* the text of the bot's last post not yet delivered back

vars == <<handlerVariant, groqVariant, env, pc, payload, intent, clock,
          dateRange, messages, completion, analysis, responseText, error,
          postError, trace, calls, response, fetcher, posted>>

-----------------------------------------------------------------------------
(* Bounds of the model.                                                    *)

MaxDay == 6          \* the clock is read on one of the days 0..MaxDay
TicksPerDay == 2     \* instants per day; tick 0 is 00:00:00.000
MaxMsgs == 1         \* length of the fetched message list
MaxPlayers == 2      \* length of confirmedPlayers in a delegate reply
MaxPlusOnes == 1     \* length of plusOnes in a delegate reply
MaxGuests == 2       \* largest guestCount in a delegate reply
MaxFormatGuests == 10 \* largest guestCount of an outcome given to the formatter
MaxHistory == 3      \* messages the chat holds when the history is fetched
MaxPage == 2         \* messages per page (the code asks for pages of 100)
MaxAccumulated == 2  \* the safety cap on allMessages (1000 in the code)

-----------------------------------------------------------------------------
(* Strings are sequences of one-character strings.                         *)

BOT_NAME == <<"p", "a", "u", "l", "-", "a", "i">>

\* String.prototype.toLowerCase on one character of the alphabet in use.
LowerChar(c) ==
    CASE c = "P" -> "p"
      [] c = "A" -> "a"
      [] c = "U" -> "u"
      [] c = "L" -> "l"
      [] c = "I" -> "i"
      [] c = "H" -> "h"
      [] OTHER -> c

toLowerCase(s) == [i \in 1..Len(s) |-> LowerChar(s[i])]

\* String.prototype.includes
includes(s, sub) ==
    \E i \in 0..(Len(s) - Len(sub)) : SubSeq(s, i + 1, i + Len(sub)) = sub

isBotMentioned_NoLower(text, botName) ==
    includes(text, <<"@">> \o botName) \/ includes(text, botName)

\* GroupMeClient.isBotMentioned
isBotMentioned(text, botName) ==
    LET lowerText == toLowerCase(text)
        lowerBotName == toLowerCase(botName)
    IN  \/ includes(lowerText, <<"@">> \o lowerBotName)
        \/ includes(lowerText, toLowerCase(botName))

-----------------------------------------------------------------------------
(* Dates.  A Date is a number of ticks; day d spans the ticks              *)
(* d*TicksPerDay .. d*TicksPerDay + TicksPerDay - 1 of local time.         *)

DayOf(date) == date \div TicksPerDay

\* Date.prototype.getDay: 0 = Sunday; day 0 (1970-01-01) was a Thursday.
getDay(date) == (DayOf(date) + 4) % 7

\* date.setDate(date.getDate() - n)
setDateBack(date, n) == date - n * TicksPerDay

\* date.setHours(0, 0, 0, 0)
setHoursStart(date) == DayOf(date) * TicksPerDay

\* date.setHours(23, 59, 59, 999)
setHoursEnd(date) == DayOf(date) * TicksPerDay + (TicksPerDay - 1)

getLatestWednesday_OffByOne(now) ==
    LET currentDay == getDay(now)
        daysToSubtract ==
            IF currentDay = 3 THEN 0
            ELSE IF currentDay > 3 THEN currentDay - 3
            ELSE currentDay + 3
    IN  setHoursStart(setDateBack(now, daysToSubtract))

getLatestWednesday(now) ==
    LET currentDay == getDay(now)
        daysToSubtract ==
            IF currentDay = 3 THEN 0
            ELSE IF currentDay > 3 THEN currentDay - 3
            ELSE currentDay + 4
    IN  setHoursStart(setDateBack(now, daysToSubtract))

\* @deprecated alias: "return getLatestWednesday();"
getLastWednesday(now) == getLatestWednesday(now)

getThisWeekRange(now) ==
    [start |-> getLatestWednesday(now), end |-> setHoursEnd(now)]

getLastWeekRange(now) ==
    LET latestWednesday == getLatestWednesday(now)
    IN  [start |-> setHoursStart(setDateBack(latestWednesday, 7)),
         end   |-> setHoursStart(latestWednesday)]

-----------------------------------------------------------------------------
(* JSON.  A reply text is a sequence of tokens; the token "members" stands  *)
(* for the member list of the one object literal the reply carries, whose   *)
(* value is kept beside the text.                                           *)

None == [has |-> FALSE]
Some(x) == [has |-> TRUE, v |-> x]

\* JSON.parse: [ok |-> FALSE] stands for a thrown SyntaxError.
JSONparse(text, obj, emptyObj) ==
    IF text = <<"{", "members", "}">> THEN [ok |-> TRUE, isNull |-> FALSE, value |-> obj]
    ELSE IF text = <<"{", "}">> THEN [ok |-> TRUE, isNull |-> FALSE, value |-> emptyObj]
    ELSE IF text = <<"null">> THEN [ok |-> TRUE, isNull |-> TRUE]
    ELSE [ok |-> FALSE]

\* responseText.match(/\{[\s\S]*\}/): from the first "{" to the last "}" after it.
matchBraces(text) ==
    LET opens == {i \in 1..Len(text) : text[i] = "{"}
        first == CHOOSE i \in opens : \A j \in opens : i <= j
        closes == {j \in 1..Len(text) : text[j] = "}" /\ j > first}
        last == CHOOSE j \in closes : \A k \in closes : k <= j
    IN  IF opens = {} \/ closes = {} THEN [found |-> FALSE]
        ELSE [found |-> TRUE, text |-> SubSeq(text, first, last)]

\* !responseText, for responseText = completion.choices[0]?.message?.content
isFalsyText(reply) ==
    reply.kind # "content" \/ Len(reply.content) = 0

-----------------------------------------------------------------------------
(* GroqClient.detectIntent                                                  *)

EmptyIntentObject == [intent |-> "undefined"]

ValidIntents(variant) ==
    IF variant = "part_001"
    THEN {"this_week", "last_week", "generic_question"}
    ELSE {"this_week", "last_week"}

validateIntent(variant, result) ==
    IF result.intent \in ValidIntents(variant) THEN result.intent ELSE "this_week"

detectIntent_NoValidation(variant, reply) ==
    IF reply.kind = "throws" \/ isFalsyText(reply) THEN "this_week"
    ELSE LET p == JSONparse(reply.content, reply.obj, EmptyIntentObject)
         IN  IF p.ok /\ ~p.isNull THEN p.value.intent ELSE "this_week"

detectIntent(variant, reply) ==
    IF reply.kind = "throws" THEN "this_week"              \* outer catch
    ELSE IF isFalsyText(reply) THEN "this_week"
    ELSE LET responseText_ == reply.content
             direct == JSONparse(responseText_, reply.obj, EmptyIntentObject)
         IN  IF direct.ok /\ ~direct.isNull
             THEN validateIntent(variant, direct.value)
             ELSE \* SyntaxError, or TypeError reading null.intent: inner catch
                  LET jsonMatch == matchBraces(responseText_)
                  IN  IF jsonMatch.found
                      THEN LET again == JSONparse(jsonMatch.text, reply.obj,
                                                  EmptyIntentObject)
                           IN  IF again.ok
                               THEN validateIntent(variant, again.value)
                               ELSE "this_week"                 \* thrown to the outer catch
                      ELSE "this_week"

-----------------------------------------------------------------------------
(* GroqClient.analyzeMessages                                               *)

EmptyRosterObject ==
    [confirmedPlayers |-> None, plusOnes |-> None, withdrawnPlayers |-> None,
     gameStatus |-> None, cancellationReason |-> None, whoseFault |-> None,
     totalCount |-> None]

\* the literal returned for an empty message list
ZeroOutcome ==
    [confirmedPlayers |-> Some(<<>>), plusOnes |-> Some(<<>>),
     withdrawnPlayers |-> Some(<<>>), gameStatus |-> Some("active"),
     cancellationReason |-> None, whoseFault |-> None, totalCount |-> Some(0)]

\* x || d for a list or a non-empty string: only a missing member is falsy
orElse(member, d) == IF member.has THEN member ELSE Some(d)

\* item.guestCount || 1
guestCountOr1(item) ==
    IF item.guestCount.has /\ item.guestCount.v # 0 THEN item.guestCount.v ELSE 1

RECURSIVE plusOneCount(_)
plusOneCount(plusOnes) ==
    IF plusOnes = <<>> THEN 0
    ELSE plusOneCount(SubSeq(plusOnes, 1, Len(plusOnes) - 1))
         + guestCountOr1(plusOnes[Len(plusOnes)])

normalize_TrustTotal(variant, parsed) ==
    [parsed EXCEPT !.confirmedPlayers = orElse(parsed.confirmedPlayers, <<>>),
                   !.plusOnes = orElse(parsed.plusOnes, <<>>),
                   !.withdrawnPlayers = orElse(parsed.withdrawnPlayers, <<>>),
                   !.gameStatus = orElse(parsed.gameStatus, "active"),
                   !.totalCount = orElse(parsed.totalCount, 0)]

normalize_DefaultFaultAlways(variant, parsed) ==
    LET a1 == [parsed EXCEPT
                 !.confirmedPlayers = orElse(parsed.confirmedPlayers, <<>>),
                 !.plusOnes = orElse(parsed.plusOnes, <<>>),
                 !.withdrawnPlayers = orElse(parsed.withdrawnPlayers, <<>>),
                 !.gameStatus = orElse(parsed.gameStatus, "active")]
        a2 == IF variant = "part_001" /\ ~a1.whoseFault.has
              THEN [a1 EXCEPT !.whoseFault = Some("When in doubt, Miles")]
              ELSE a1
    IN  [a2 EXCEPT !.totalCount =
            Some(Len(a2.confirmedPlayers.v) + plusOneCount(a2.plusOnes.v))]

\* "Validate and calculate total count"
normalize(variant, parsed) ==
    LET a1 == [parsed EXCEPT
                 !.confirmedPlayers = orElse(parsed.confirmedPlayers, <<>>),
                 !.plusOnes = orElse(parsed.plusOnes, <<>>),
                 !.withdrawnPlayers = orElse(parsed.withdrawnPlayers, <<>>),
                 !.gameStatus = orElse(parsed.gameStatus, "active")]
        a2 == IF variant = "part_001" /\ a1.gameStatus.v = "cancelled"
                 /\ ~a1.whoseFault.has
              THEN [a1 EXCEPT !.whoseFault = Some("When in doubt, Miles")]
              ELSE a1
    IN  [a2 EXCEPT !.totalCount =
            Some(Len(a2.confirmedPlayers.v) + plusOneCount(a2.plusOnes.v))]

Thrown(msg) == [ok |-> FALSE, error |-> msg]
Returned(value) == [ok |-> TRUE, value |-> value]

analyzeMessages_DefaultOnError(variant, msgs, reply) ==
    IF Len(msgs) = 0 THEN Returned(ZeroOutcome)
    ELSE IF reply.kind = "throws" \/ isFalsyText(reply)
    THEN Returned(ZeroOutcome)
    ELSE LET jsonMatch == matchBraces(reply.content)
             p == JSONparse(IF jsonMatch.found THEN jsonMatch.text
                            ELSE reply.content,
                            reply.obj, EmptyRosterObject)
         IN  IF p.ok /\ ~p.isNull THEN Returned(normalize(variant, p.value))
             ELSE Returned(ZeroOutcome)

analyzeMessages_NoShortCircuit(variant, msgs, reply) ==
    IF reply.kind = "throws" THEN Thrown("Groq API error")
    ELSE IF isFalsyText(reply) THEN Thrown("No response from Groq API")
    ELSE LET p == JSONparse(reply.content, reply.obj, EmptyRosterObject)
         IN  IF p.ok /\ ~p.isNull THEN Returned(normalize(variant, p.value))
             ELSE Thrown("Failed to parse JSON response")

analyzeMessages(variant, msgs, reply) ==
    IF Len(msgs) = 0 THEN Returned(ZeroOutcome)
    ELSE IF reply.kind = "throws" THEN Thrown("Groq API error")
    ELSE IF isFalsyText(reply) THEN Thrown("No response from Groq API")
    ELSE LET responseText_ == reply.content
             direct == JSONparse(responseText_, reply.obj, EmptyRosterObject)
         IN  IF direct.ok
             THEN IF direct.isNull THEN Thrown("TypeError")
                  ELSE Returned(normalize(variant, direct.value))
             ELSE LET jsonMatch == matchBraces(responseText_)
                  IN  IF jsonMatch.found
                      THEN LET again == JSONparse(jsonMatch.text, reply.obj,
                                                  EmptyRosterObject)
                           IN  IF again.ok
                               THEN Returned(normalize(variant, again.value))
                               ELSE Thrown("SyntaxError")
                      ELSE Thrown("Failed to parse JSON response")

-----------------------------------------------------------------------------
(* formatRosterResponse (src/lib/groq.ts:194): one line per record.  The    *)
(* function takes the analysis only; a second argument is ignored.          *)

minPlayers == 10

\* the header: one fixed text (groq.ts:197)
headerLines ==
    <<[line |-> "header", text |-> "This Week's Roster"], [line |-> "blank"]>>

confirmedLines(a) ==
    IF Len(a.confirmedPlayers.v) > 0
    THEN <<[line |-> "confirmed", count |-> Len(a.confirmedPlayers.v)]>>
         \o [i \in 1..Len(a.confirmedPlayers.v) |->
                [line |-> "player", name |-> a.confirmedPlayers.v[i]]]
         \o <<[line |-> "blank"]>>
    ELSE <<[line |-> "confirmed-none"], [line |-> "blank"]>>

plusOneLines_Always(a) ==
    <<[line |-> "plusOnes", count |-> plusOneCount(a.plusOnes.v)]>>
    \o [i \in 1..Len(a.plusOnes.v) |->
           LET item == a.plusOnes.v[i]
           IN  [line |-> "guest", inviter |-> item.inviter,
                plus |-> IF item.guestCount.has /\ item.guestCount.v > 1
                         THEN item.guestCount.v ELSE 1]]
    \o <<[line |-> "blank"]>>

plusOneLines(a) ==
    IF Len(a.plusOnes.v) > 0
    THEN <<[line |-> "plusOnes", count |-> plusOneCount(a.plusOnes.v)]>>
         \o [i \in 1..Len(a.plusOnes.v) |->
                LET item == a.plusOnes.v[i]
                IN  [line |-> "guest", inviter |-> item.inviter,
                     plus |-> IF item.guestCount.has /\ item.guestCount.v > 1
                              THEN item.guestCount.v ELSE 1]]
         \o <<[line |-> "blank"]>>
    ELSE <<>>

withdrawnLines(a) ==
    IF Len(a.withdrawnPlayers.v) > 0
    THEN <<[line |-> "withdrawn"]>>
         \o [i \in 1..Len(a.withdrawnPlayers.v) |->
                [line |-> "out", name |-> a.withdrawnPlayers.v[i]]]
         \o <<[line |-> "blank"]>>
    ELSE <<>>

statusLines_ReadyAbove(a) ==
    IF a.gameStatus.v = "cancelled"
    THEN <<[line |-> "cancelled"]>>
         \o (IF a.cancellationReason.has
             THEN <<[line |-> "reason", text |-> a.cancellationReason.v]>>
             ELSE <<>>)
    ELSE LET currentCount == a.totalCount.v
             needed == minPlayers - currentCount
         IN  IF currentCount > minPlayers
             THEN <<[line |-> "ready", count |-> currentCount]>>
             ELSE <<[line |-> "need", needed |-> needed,
                     plural |-> needed > 1, count |-> currentCount]>>

\* the status: the cancellation with its reason, or ready / need more
statusLines(a) ==
    IF a.gameStatus.v = "cancelled"
    THEN <<[line |-> "cancelled"]>>
         \o (IF a.cancellationReason.has
             THEN <<[line |-> "reason", text |-> a.cancellationReason.v]>>
             ELSE <<>>)
    ELSE LET currentCount == a.totalCount.v
             needed == minPlayers - currentCount
         IN  IF currentCount >= minPlayers
             THEN <<[line |-> "ready", count |-> currentCount]>>
             ELSE <<[line |-> "need", needed |-> needed,
                     plural |-> needed > 1, count |-> currentCount]>>

formatRosterResponse(a) ==
    headerLines \o confirmedLines(a) \o plusOneLines(a) \o withdrawnLines(a)
    \o statusLines(a)

\* The characters of a string the delegate supplied: the bot's name letter by
\* letter; every other name or reason of the model is kept as one piece.
chars(str) == IF str = "paul-ai" THEN BOT_NAME ELSE <<str>>

\* The template literal of one line; a fixed part of the template is one
\* piece (none of them holds the bot's name).
lineText(r) ==
    CASE r.line = "header" -> <<r.text, " (since last Wednesday):">>
      [] r.line = "blank" -> <<>>
      [] r.line = "confirmed" -> <<"Confirmed Players (", ToString(r.count), "):">>
      [] r.line = "confirmed-none" -> <<"Confirmed Players: None">>
      [] r.line = "player" -> <<"- ">> \o chars(r.name)
      [] r.line = "plusOnes" -> <<"+1 Guests (", ToString(r.count), "):">>
      [] r.line = "guest" -> <<"- ">> \o chars(r.inviter) \o <<"'s +", ToString(r.plus)>>
      [] r.line = "withdrawn" -> <<"Withdrawn:">>
      [] r.line = "out" -> <<"- ">> \o chars(r.name) \o <<" (was in, now out)">>
      [] r.line = "cancelled" -> <<"Status: Game CANCELLED">>
      [] r.line = "reason" -> <<"Reason: ">> \o chars(r.text)
      [] r.line = "ready" ->
            <<"Status: Ready to play! (", ToString(r.count), " players)">>
      [] r.line = "need" ->
            <<"Status: Need ", ToString(r.needed), " more player">>
            \o (IF r.plural THEN <<"s">> ELSE <<>>)
            \o <<" (currently ", ToString(r.count), " with +1s)">>

RECURSIVE join(_)
\* lines.join('\n')
join(lines) ==
    IF Len(lines) = 0 THEN <<>>
    ELSE IF Len(lines) = 1 THEN lineText(lines[1])
    ELSE join(SubSeq(lines, 1, Len(lines) - 1)) \o <<"\n">>
         \o lineText(lines[Len(lines)])

\* the text of the courtesy post (route.ts:110)
courtesyText ==
    <<"Sorry, I encountered an error processing your request. Please try again later.">>

-----------------------------------------------------------------------------
(* GroupMeClient.fetchMessagesSince (src/lib/groupme.ts:23-84).  A message   *)
(* is [id, created_at]; created_at is in ticks.                             *)

\* new Date(msg.created_at * 1000)
msgDate(msg) == msg.created_at

relevantMessages_All(page, sinceDate) == page

\* messages.filter(msg => msgDate >= sinceDate)
relevantMessages(page, sinceDate) ==
    SelectSeq(page, LAMBDA msg : msgDate(msg) >= sinceDate)

\* messages[messages.length - 1] of a non-empty page
oldestMessage(page) == page[Len(page)]

\* oldestDate < sinceDate: "If we got messages older than sinceDate, we can stop"
reachedSince(page, sinceDate) == msgDate(oldestMessage(page)) < sinceDate

tooMany_Never(allMessages) == FALSE

\* allMessages.length > 1000
tooMany(allMessages) == Len(allMessages) > MaxAccumulated

\* Array.prototype.reverse
reverse(seq) == [i \in 1..Len(seq) |-> seq[Len(seq) + 1 - i]]

\* fetchMessagesInRange(start, end) keeps of fetchMessagesSince(start) the
\* messages sent before end: the window is [start, end)
inRange(msgs, endDate) == SelectSeq(msgs, LAMBDA msg : msgDate(msg) < endDate)

\* the locals of the loop: beforeId 0 is undefined
NoFetcher ==
    [phase |-> "none", platform |-> "none", history |-> <<>>, allMessages |-> <<>>,
     beforeId |-> 0, requests |-> 0, page |-> <<>>, result |-> <<>>]

-----------------------------------------------------------------------------
(* The inputs of the model.                                                 *)

RequiredEnvVars ==
    {"GROQ_API_KEY", "GROUPME_BOT_ID", "GROUPME_ACCESS_TOKEN", "GROUPME_GROUP_ID"}

UpperChar(c) ==
    CASE c = "p" -> "P"
      [] c = "a" -> "A"
      [] c = "u" -> "U"
      [] c = "l" -> "L"
      [] c = "i" -> "I"
      [] OTHER -> c

\* the bot name with the letters at the positions of mask in upper case
Cased(mask) ==
    [i \in 1..Len(BOT_NAME) |->
        IF i \in mask THEN UpperChar(BOT_NAME[i]) ELSE BOT_NAME[i]]

NearMisses ==
    {<<"p", "a", "u", "l">>, <<"p", "a", "u", "l", " ", "a", "i">>,
     <<"p", "a", "u", "l", "a", "i">>, <<"a", "u", "l", "-", "a", "i">>,
     <<"P", "A", "U", "L", "-", "A">>, <<"h", "i">>}

Texts ==
    {pre \o core \o suf :
        pre \in {<<>>, <<"@">>, <<"H", "i", " ">>},
        core \in {Cased(m) : m \in SUBSET {1, 2, 3, 4, 6, 7}} \cup NearMisses,
        suf \in {<<>>, <<"?">>}}

\* What the request carries.  "none": no body; "invalid": a body that is not
\* JSON; "null": the JSON null; "notext": an object without text; "emptytext":
\* text ""; "nonstring": a truthy text that is no string; "text": a string.
TextBodies == {[kind |-> "text", text |-> t] : t \in Texts}

\* the callback the platform makes for a post of the bot itself
OwnPostBodies(text) ==
    IF text = <<>> THEN {}
    ELSE {[kind |-> "text", text |-> text, sender_type |-> "bot"]}

Bodies(variant) ==
    {[kind |-> k] : k \in {"none", "null", "notext", "emptytext", "nonstring"}
                          \cup (IF variant = "app" THEN {"invalid"} ELSE {})}
    \cup TextBodies

OkShapes ==
    {<<"{", "members", "}">>, <<"fence", "{", "members", "}", "fence">>}

OtherShapes ==
    {<<>>, <<"{", "}">>, <<"null">>, <<"junk">>, <<"junk", "{", "}">>,
     <<"{", "members">>, <<"}", "junk", "{">>,
     <<"{", "members", "}", "junk", "{", "}">>}

Replies(objects, emptyObject) ==
    {[kind |-> "throws"], [kind |-> "undefined"]}
    \cup {[kind |-> "content", content |-> c, obj |-> o] :
             c \in OkShapes, o \in objects}
    \cup {[kind |-> "content", content |-> c, obj |-> emptyObject] :
             c \in OtherShapes}

IntentObjects ==
    {[intent |-> v] :
        v \in {"this_week", "last_week", "generic_question", "next_week", "undefined"}}

Names == <<"A", "B", "C", "D">>

Optional(S) == {None} \cup {Some(x) : x \in S}

PlusOneItems ==
    {[inviter |-> "A", guestCount |-> g] : g \in Optional(0..MaxGuests)}

PlusOneLists == UNION {[1..n -> PlusOneItems] : n \in 0..MaxPlusOnes}

RosterObjects ==
    [confirmedPlayers : Optional({SubSeq(Names, 1, n) : n \in 0..MaxPlayers}
                                 \cup {<<"paul-ai">>}),
     plusOnes : Optional(PlusOneLists),
     withdrawnPlayers : Optional({<<"A">>}),
     gameStatus : Optional({"active", "cancelled", "postponed"}),
     cancellationReason : Optional({"rain"}),
     whoseFault : Optional({"Bob"}),
     totalCount : Optional({99})]

Nows == 0..(MaxDay * TicksPerDay + TicksPerDay - 1)

MessageLists == {[i \in 1..n |-> i] : n \in 0..MaxMsgs}

-----------------------------------------------------------------------------
(* The handler.                                                             *)

NoRange == [start |-> -1, end |-> -1]
NoCompletion == [kind |-> "none"]
NoResponse == [status |-> 0]

FreshRequest ==
    /\ pc = "idle"
    /\ payload = [kind |-> "unread"]
    /\ intent = "none"
    /\ clock = -1
    /\ dateRange = NoRange
    /\ messages = <<>>
    /\ completion = NoCompletion
    /\ analysis = None
    /\ responseText = <<>>
    /\ error = "none"
    /\ postError = "none"
    /\ trace = <<>>
    /\ calls = <<>>
    /\ response = NoResponse
    /\ fetcher = NoFetcher
    /\ posted = <<>>

Init ==
    /\ handlerVariant \in {"app", "api"}
    /\ groqVariant \in {"lib", "part_001"}
    /\ env \in SUBSET RequiredEnvVars
    /\ FreshRequest

Respond(r) ==
    /\ response' = r
    /\ pc' = "done"

missingEnvVar_Lenient(e) == e = {}

\* the loop over requiredEnvVars (route.ts:23-31)
missingEnvVar(e) == \E envVar \in RequiredEnvVars : envVar \notin e

\* The request arrives: the method check (Vercel handler only) and the
\* configuration check; the Next.js POST then awaits req.json().
Receive(method) ==
    /\ pc = "idle"
    /\ IF handlerVariant = "api" /\ method # "POST"
       THEN Respond([status |-> 405, error |-> "Method not allowed"])
       ELSE IF missingEnvVar(env)
       THEN Respond([status |-> 500, error |-> "Server configuration error"])
       ELSE /\ pc' = "payload"
            /\ UNCHANGED response
    /\ UNCHANGED <<posted, fetcher, handlerVariant, groqVariant, env, payload, intent, clock,
                   dateRange, messages, completion, analysis, responseText,
                   error, postError, trace, calls>>

\* req.json() / req.body
bodyThrows(variant, body) ==
    variant = "app" /\ body.kind \in {"none", "invalid"}

\* !payload || !payload.text
invalidPayload(body) == body.kind \in {"none", "null", "notext", "emptytext"}

\* The body is read, validated and tested for a mention; an addressed message
\* constructs the clients and calls detectIntent (route.ts:33-64).
ReadPayload(body) ==
    /\ pc = "payload"
    /\ payload' = body
    /\ IF bodyThrows(handlerVariant, body)
       THEN /\ error' = "SyntaxError"
            /\ pc' = "catch"
            /\ UNCHANGED <<response, trace, calls>>
       ELSE IF invalidPayload(body)
       THEN /\ Respond([status |-> 400, error |-> "Invalid payload"])
            /\ UNCHANGED <<error, trace, calls>>
       ELSE IF body.kind = "nonstring"
       THEN /\ error' = "TypeError"          \* text.toLowerCase is not a function
            /\ pc' = "catch"
            /\ UNCHANGED <<response, trace, calls>>
       ELSE IF ~isBotMentioned(body.text, BOT_NAME)
       THEN /\ Respond([status |-> 200, action |-> "ignored"])
            /\ UNCHANGED <<error, trace, calls>>
       ELSE /\ pc' = "detectIntent"
            /\ trace' = Append(trace, "detectIntent")
            /\ calls' = Append(calls, "groq.intent")
            /\ UNCHANGED <<response, error>>
    /\ posted' = <<>>
    /\ UNCHANGED <<fetcher, handlerVariant, groqVariant, env, intent, clock, dateRange,
                   messages, completion, analysis, responseText, postError>>

\* detectIntent returns (it never throws); payload.text is not read again.
DetectIntentReturns(reply) ==
    /\ pc = "detectIntent"
    /\ completion' = reply
    /\ intent' = detectIntent(groqVariant, reply)
    /\ payload' = [kind |-> "consumed"]
    /\ pc' = "window"
    /\ UNCHANGED <<posted, fetcher, handlerVariant, groqVariant, env, clock, dateRange, messages,
                   analysis, responseText, error, postError, trace, calls,
                   response>>

selectRange_Swapped(i, now) ==
    IF i = "this_week" THEN getThisWeekRange(now) ELSE getLastWeekRange(now)

\* intent === 'last_week' ? getLastWeekRange() : getThisWeekRange()
selectRange(i, now) ==
    IF i = "last_week" THEN getLastWeekRange(now) ELSE getThisWeekRange(now)

\* The window is resolved from the clock and the history fetch is started.
ResolveWindow(now) ==
    /\ pc = "window"
    /\ clock' = now
    /\ dateRange' = selectRange(intent, now)
    /\ completion' = NoCompletion
    /\ trace' = trace \o <<"window", "fetch">>
    /\ calls' = Append(calls, "groupme.messages")
    /\ pc' = "fetch"
    /\ UNCHANGED <<posted, fetcher, handlerVariant, groqVariant, env, payload, intent, messages,
                   analysis, responseText, error, postError, response>>

\* the request analyzeMessages sends: none for an empty list (groq.ts:41, 62)
analyzeCalls(msgs) == IF Len(msgs) = 0 THEN <<>> ELSE <<"groq.analyze">>

\* The history fetch settles: it throws, or yields the message list, which is
\* handed to analyzeMessages; only a non-empty list reaches the model service.
FetchReturns(ok, msgs) ==
    /\ pc = "fetch"
    /\ clock' = -1
    /\ dateRange' = NoRange                  \* not read after the fetch
    /\ IF ok
       THEN /\ messages' = msgs
            /\ trace' = Append(trace, "analyze")
            /\ calls' = calls \o analyzeCalls(msgs)
            /\ pc' = "analyze"
            /\ UNCHANGED error
       ELSE /\ error' = "GroupMe API error"
            /\ pc' = "catch"
            /\ UNCHANGED <<messages, trace, calls>>
    /\ UNCHANGED <<posted, fetcher, handlerVariant, groqVariant, env, payload, intent, completion,
                   analysis, responseText, postError, response>>

\* analyzeMessages settles with an outcome or an error.
AnalyzeReturns(reply) ==
    /\ pc = "analyze"
    /\ LET result == analyzeMessages(groqVariant, messages, reply)
       IN  IF result.ok
           THEN /\ analysis' = result.value
                /\ pc' = "format"
                /\ UNCHANGED error
           ELSE /\ error' = result.error
                /\ pc' = "catch"
                /\ UNCHANGED analysis
    /\ completion' = reply
    /\ UNCHANGED <<posted, fetcher, handlerVariant, groqVariant, env, payload, intent, clock,
                   dateRange, messages, responseText, postError, trace, calls,
                   response>>

\* The outcome is formatted and the roster post is started.
Format ==
    /\ pc = "format"
    /\ responseText' = formatRosterResponse(analysis)
    /\ completion' = NoCompletion
    /\ trace' = trace \o <<"format", "post">>
    /\ calls' = Append(calls, "groupme.post:roster")
    /\ pc' = "post"
    /\ UNCHANGED <<posted, fetcher, handlerVariant, groqVariant, env, payload, intent, clock,
                   dateRange, messages, analysis, error, postError, response>>

\* the success acknowledgment (route.ts:92-98)
processed(i, msgs, a) ==
    [status |-> 200, action |-> "processed", intent |-> i,
     messageCount |-> Len(msgs), playerCount |-> a.totalCount.v]

PostReturns_Retry(ok) ==
    /\ pc = "post"
    /\ IF ok
       THEN /\ Respond(processed(intent, messages, analysis))
            /\ UNCHANGED <<error, trace, calls>>
       ELSE /\ trace' = Append(trace, "post")
            /\ calls' = Append(calls, "groupme.post:roster")
            /\ UNCHANGED <<pc, error, response>>
    /\ posted' = IF ok THEN join(responseText) ELSE posted
    /\ UNCHANGED <<fetcher, handlerVariant, groqVariant, env, payload, intent, clock,
                   dateRange, messages, completion, analysis, responseText,
                   postError>>

\* postMessage settles.
PostReturns(ok) ==
    /\ pc = "post"
    /\ IF ok
       THEN /\ Respond(processed(intent, messages, analysis))
            /\ UNCHANGED error
       ELSE /\ error' = "GroupMe API error"
            /\ pc' = "catch"
            /\ UNCHANGED response
    /\ posted' = IF ok THEN join(responseText) ELSE posted
    /\ UNCHANGED <<fetcher, handlerVariant, groqVariant, env, payload, intent, clock,
                   dateRange, messages, completion, analysis, responseText,
                   postError, trace, calls>>

\* catch (error): the locals of the try block are gone; the courtesy post is
\* started.
Catch ==
    /\ pc = "catch"
    /\ completion' = NoCompletion
    /\ intent' = "none"
    /\ messages' = <<>>
    /\ analysis' = None
    /\ responseText' = <<>>
    /\ trace' = Append(trace, "courtesy")
    /\ calls' = Append(calls, "groupme.post:error")
    /\ pc' = "courtesy"
    /\ UNCHANGED <<posted, fetcher, handlerVariant, groqVariant, env, payload, clock, dateRange,
                   error, postError, response>>

serverError(e) ==
    [status |-> 500, error |-> "Internal server error", message |-> e]

afterCourtesy_Propagating(e, ok) ==
    IF ok THEN serverError(e) ELSE [status |-> 500, unhandled |-> "GroupMe API error"]

\* what the catch block answers once the courtesy post settled (route.ts:103-122)
afterCourtesy(e, ok) == serverError(e)

\* The courtesy post settles; its failure is caught and logged.
CourtesyReturns(ok) ==
    /\ pc = "courtesy"
    /\ postError' = IF ok THEN "none" ELSE "GroupMe API error"
    /\ Respond(afterCourtesy(error, ok))
    /\ posted' = IF ok THEN courtesyText ELSE posted
    /\ UNCHANGED <<fetcher, handlerVariant, groqVariant, env, payload, intent, clock,
                   dateRange, messages, completion, analysis, responseText,
                   error, trace, calls>>

\* The next invocation starts from nothing: no state survives a request.
NextRequest ==
    /\ pc = "done"
    /\ pc' = "idle"
    /\ payload' = [kind |-> "unread"]
    /\ intent' = "none"
    /\ clock' = -1
    /\ dateRange' = NoRange
    /\ messages' = <<>>
    /\ completion' = NoCompletion
    /\ analysis' = None
    /\ responseText' = <<>>
    /\ error' = "none"
    /\ postError' = "none"
    /\ trace' = <<>>
    /\ calls' = <<>>
    /\ response' = NoResponse
    /\ UNCHANGED <<posted, fetcher, handlerVariant, groqVariant, env>>

IntentReplies == Replies(IntentObjects, EmptyIntentObject)

RosterReplies == Replies(RosterObjects, EmptyRosterObject)

\* analyzeMessages consults the model service only for a non-empty list
RepliesFor(msgs) == IF Len(msgs) = 0 THEN {NoCompletion} ELSE RosterReplies

Next ==
    \/ pc = "idle" /\ \E method \in {"POST", "GET"} : Receive(method)
    \/ /\ pc = "payload"
       /\ \E body \in Bodies(handlerVariant) \cup OwnPostBodies(posted) :
             ReadPayload(body)
    \/ pc = "detectIntent" /\ \E reply \in IntentReplies : DetectIntentReturns(reply)
    \/ pc = "window" /\ \E now \in Nows : ResolveWindow(now)
    \/ pc = "fetch" /\ \E ok \in BOOLEAN, msgs \in MessageLists : FetchReturns(ok, msgs)
    \/ pc = "analyze" /\ \E reply \in RepliesFor(messages) : AnalyzeReturns(reply)
    \/ Format
    \/ pc = "post" /\ \E ok \in BOOLEAN : PostReturns(ok)
    \/ Catch
    \/ pc = "courtesy" /\ \E ok \in BOOLEAN : CourtesyReturns(ok)
    \/ NextRequest

Spec == Init /\ [][Next]_vars

-----------------------------------------------------------------------------
(* formatRosterResponse on its own: the handler stands before the call of   *)
(* route.ts:85 with an outcome analyzeMessages returned for a reply whose   *)
(* guest counts reach past minPlayers.                                      *)

FormatObjects ==
    [confirmedPlayers : Optional({SubSeq(Names, 1, n) : n \in 0..MaxPlayers}),
     plusOnes : Optional({<<>>} \cup {<<[inviter |-> "A", guestCount |-> g]>> :
                                        g \in Optional(0..MaxFormatGuests)}),
     withdrawnPlayers : Optional({<<"A">>}),
     gameStatus : Optional({"active", "cancelled", "postponed"}),
     cancellationReason : Optional({"rain"}),
     whoseFault : Optional({"Bob"}),
     totalCount : {None}]

InitFormat ==
    /\ handlerVariant \in {"app", "api"}
    /\ groqVariant \in {"lib", "part_001"}
    /\ env = RequiredEnvVars
    /\ pc = "format"
    /\ payload = [kind |-> "consumed"]
    /\ intent \in ValidIntents(groqVariant)
    /\ clock = -1
    /\ dateRange = NoRange
    /\ messages = <<1>>
    /\ \E obj \in FormatObjects :
          /\ completion = [kind |-> "content", content |-> <<"{", "members", "}">>,
                           obj |-> obj]
          /\ analysis = analyzeMessages(groqVariant, <<1>>, completion).value
    /\ responseText = <<>>
    /\ error = "none"
    /\ postError = "none"
    /\ trace = <<"detectIntent", "window", "fetch", "analyze">>
    /\ calls = <<"groq.intent", "groupme.messages", "groq.analyze">>
    /\ response = NoResponse
    /\ fetcher = NoFetcher
    /\ posted = <<>>

NextFormat == Format

SpecFormat == InitFormat /\ [][NextFormat]_vars

-----------------------------------------------------------------------------
(* The history fetch unfolded: the handler stands in the await of           *)
(* route.ts:72 and the pagination loop of groupme.ts:29-80 runs page by     *)
(* page against the chat platform.  An "ordered" platform serves a fixed    *)
(* history newest first and honours before_id; an "arbitrary" platform      *)
(* answers every request with any page.                                     *)

\* the instants around the window at which a message was sent, none after now
TimesAround(range, now) ==
    {t \in {range.start - 1, range.start, range.end - 1, range.end, now} : t <= now}

\* the chat, newest first
Histories(times) ==
    {[i \in 1..Len(h) |-> [id |-> i, created_at |-> h[i]]] :
        h \in {g \in UNION {[1..n -> times] : n \in 0..MaxHistory} :
                  \A i \in 1..(Len(g) - 1) : g[i] >= g[i + 1]}}

\* GET /groups/:id/messages?limit=..&before_id=..
platformPage(history, beforeId) ==
    LET pos == IF beforeId = 0 THEN 0
               ELSE CHOOSE i \in 1..Len(history) : history[i].id = beforeId
        last == IF pos + MaxPage < Len(history) THEN pos + MaxPage ELSE Len(history)
    IN  SubSeq(history, pos + 1, last)

ArbitraryPages(sinceDate) ==
    UNION {[1..n -> {[id |-> 1, created_at |-> t] : t \in {sinceDate - 1, sinceDate}}] :
              n \in 0..MaxPage}

PagesFor(f, sinceDate) ==
    IF f.platform = "ordered" THEN {platformPage(f.history, f.beforeId)}
    ELSE ArbitraryPages(sinceDate)

InitFetch ==
    /\ handlerVariant \in {"app", "api"}
    /\ groqVariant \in {"lib", "part_001"}
    /\ env = RequiredEnvVars
    /\ pc = "fetch"
    /\ payload = [kind |-> "consumed"]
    /\ intent \in ValidIntents(groqVariant)
    /\ clock \in Nows
    /\ dateRange = selectRange(intent, clock)
    /\ messages = <<>>
    /\ completion = NoCompletion
    /\ analysis = None
    /\ responseText = <<>>
    /\ error = "none"
    /\ postError = "none"
    /\ trace = <<"detectIntent", "window", "fetch">>
    /\ calls = <<"groq.intent", "groupme.messages">>
    /\ response = NoResponse
    /\ \/ \E h \in Histories(TimesAround(dateRange, clock)) :
             fetcher = [NoFetcher EXCEPT !.phase = "loop", !.platform = "ordered",
                                         !.history = h]
       \/ fetcher = [NoFetcher EXCEPT !.phase = "loop", !.platform = "arbitrary"]
    /\ posted = <<>>

\* the model stops a loop that asked for more pages than any run of the code
MaxRequests == MaxAccumulated + 2

\* One iteration of while (true): the page is requested and the response is
\* handled up to the next request, a break or a throw.
FetchPage(ok, page) ==
    /\ pc = "fetch"
    /\ fetcher.phase = "loop"
    /\ fetcher.requests < MaxRequests
    /\ IF ~ok
       THEN fetcher' = [fetcher EXCEPT !.requests = @ + 1, !.page = <<>>,
                                       !.phase = "thrown"]
       ELSE IF Len(page) = 0
       THEN fetcher' = [fetcher EXCEPT
                           !.requests = @ + 1, !.page = page, !.phase = "returned",
                           !.result = inRange(reverse(fetcher.allMessages),
                                              dateRange.end)]
       ELSE LET allMessages == fetcher.allMessages
                                \o relevantMessages(page, dateRange.start)
                stop == reachedSince(page, dateRange.start) \/ tooMany(allMessages)
            IN  fetcher' = [fetcher EXCEPT
                               !.requests = @ + 1,
                               !.page = page,
                               !.allMessages = allMessages,
                               !.beforeId = IF reachedSince(page, dateRange.start)
                                            THEN @ ELSE oldestMessage(page).id,
                               !.phase = IF stop THEN "returned" ELSE "loop",
                               !.result = IF stop
                                          THEN inRange(reverse(allMessages),
                                                       dateRange.end)
                                          ELSE <<>>]
    /\ UNCHANGED <<handlerVariant, groqVariant, env, pc, payload, intent, clock,
                   dateRange, messages, completion, analysis, responseText,
                   error, postError, trace, calls, response, posted>>

NextFetch ==
    \/ /\ pc = "fetch" /\ fetcher.phase = "loop"
       /\ \E ok \in BOOLEAN, page \in PagesFor(fetcher, dateRange.start) :
             FetchPage(ok, page)
    \/ pc = "fetch" /\ fetcher.phase = "returned" /\ FetchReturns(TRUE, fetcher.result)
    \/ pc = "fetch" /\ fetcher.phase = "thrown" /\ FetchReturns(FALSE, <<>>)

SpecFetch == InitFetch /\ [][NextFetch]_vars

\* every request of the loop is answered
SpecFetchLive == SpecFetch /\ WF_vars(NextFetch)

-----------------------------------------------------------------------------
(* Helpers of the properties.                                               *)

Count(seq, x) == Cardinality({i \in 1..Len(seq) : seq[i] = x})

IsPrefix(p, q) == Len(p) <= Len(q) /\ SubSeq(q, 1, Len(p)) = p

AddressedSteps == <<"detectIntent", "window", "fetch", "analyze", "format", "post">>

\* the steps of the try block: the trace without a trailing courtesy post
TrySteps(t) ==
    IF Len(t) > 0 /\ t[Len(t)] = "courtesy" THEN SubSeq(t, 1, Len(t) - 1) ELSE t

Ignored == [status |-> 200, action |-> "ignored"]

\* the text holds the bot name, each letter in either case
ContainsBotName(text) ==
    \E i \in 0..(Len(text) - Len(BOT_NAME)) :
        \A k \in 1..Len(BOT_NAME) :
            text[i + k] \in {BOT_NAME[k], UpperChar(BOT_NAME[k])}

\* C1: a request whose text holds the bot name in no letter case is answered
\* 'ignored' with no external call and no step started; a text holding the
\* name in any letter case is treated as addressed (detectIntent is called).
C1_IgnoredUnlessNamed ==
    payload.kind = "text" =>
        IF ContainsBotName(payload.text)
        THEN pc = "detectIntent" /\ trace = <<"detectIntent">>
             /\ response = NoResponse
        ELSE pc = "done" /\ response = Ignored /\ calls = <<>> /\ trace = <<>>

C1_Witness ==
    /\ payload.kind = "text"
    /\ payload.text = <<"@">> \o <<"p", "a", "u", "l", " ", "a", "i">> \o <<"?">>
    /\ response = Ignored

\* the converse case of C1: a mixed-case name is treated as addressed
C1_WitnessMixedCase ==
    /\ payload.kind = "text"
    /\ payload.text = <<"H", "i", " ", "P", "a", "U", "l", "-", "A", "i">>
    /\ pc = "detectIntent"

RECURSIVE SumGuestCount(_)
\* the sum of guestCount as the reply states it (a missing one adds nothing)
SumGuestCount(plusOnes) ==
    IF plusOnes = <<>> THEN 0
    ELSE SumGuestCount(Tail(plusOnes))
         + (IF Head(plusOnes).guestCount.has THEN Head(plusOnes).guestCount.v ELSE 0)

RECURSIVE SumGuestsCounted(_)
\* the sum of guestCount with an entry of 0 or no guestCount counted as one guest
SumGuestsCounted(plusOnes) ==
    IF plusOnes = <<>> THEN 0
    ELSE SumGuestsCounted(Tail(plusOnes))
         + (IF Head(plusOnes).guestCount.has /\ Head(plusOnes).guestCount.v >= 1
            THEN Head(plusOnes).guestCount.v ELSE 1)

\* C2 as stated: in every returned outcome totalCount equals
\* confirmedPlayers.length plus the sum of guestCount over plusOnes, also for
\* entries whose guestCount is 0 or missing.
C2_TotalIsSumOfGuestCount ==
    analysis # None =>
        analysis.totalCount.v =
            Len(analysis.confirmedPlayers.v) + SumGuestCount(analysis.plusOnes.v)

\* C2 amended: in every returned outcome totalCount equals
\* confirmedPlayers.length plus the sum over plusOnes of guestCount, an entry
\* whose guestCount is 0 or missing counting as one guest; the total the
\* delegate reported is never used.
C2_TotalCountsDefaultGuest ==
    analysis # None =>
        /\ analysis.totalCount.has
        /\ analysis.totalCount.v =
              Len(analysis.confirmedPlayers.v) + SumGuestsCounted(analysis.plusOnes.v)

C2_Witness ==
    /\ pc = "format"
    /\ completion.kind = "content"
    /\ completion.obj.totalCount = Some(99)
    /\ completion.obj.plusOnes.has
    /\ \E i \in 1..Len(completion.obj.plusOnes.v) :
          completion.obj.plusOnes.v[i].guestCount = Some(0)
    /\ analysis.totalCount.v = Len(analysis.confirmedPlayers.v) + 1

\* the reply carries a well-formed object, bare or fenced, and nothing else
CarriesObject(reply) ==
    /\ reply.kind = "content"
    /\ reply.content \in {<<"{", "members", "}">>,
                          <<"fence", "{", "members", "}", "fence">>}

ClosedIntentSet ==
    IF groqVariant = "part_001"
    THEN {"this_week", "last_week", "generic_question"}
    ELSE {"this_week", "last_week"}

\* C3: detectIntent never fails and always yields a member of the closed
\* set: the reply's intent when the reply carries an object with a valid
\* intent, and 'this_week' for every other behaviour of the delegate.
C3_IntentAlwaysDefined ==
    /\ pc \in {"window", "fetch", "analyze", "format", "post"} => intent \in ClosedIntentSet
    /\ pc = "window" =>
          /\ error = "none"
          /\ intent = IF CarriesObject(completion)
                         /\ completion.obj.intent \in ClosedIntentSet
                      THEN completion.obj.intent
                      ELSE "this_week"
    /\ pc = "catch" /\ trace # <<>> => Len(trace) >= 3

C3_Witness ==
    /\ pc = "window"
    /\ completion.kind = "content"
    /\ completion.content = <<"{", "members", "}", "junk", "{", "}">>
    /\ intent = "this_week"

\* C4: analyzeMessages on an empty list returns the zero outcome and makes
\* no call to the model service.
C4_EmptyListZeroOutcome ==
    /\ (trace = SubSeq(AddressedSteps, 1, 4) /\ Len(messages) = 0
           /\ pc \in {"format", "catch"}) =>
          pc = "format" /\ error = "none" /\ analysis # None
    /\ (analysis # None /\ Len(messages) = 0) =>
          /\ analysis.confirmedPlayers = Some(<<>>)
          /\ analysis.plusOnes = Some(<<>>)
          /\ analysis.withdrawnPlayers = Some(<<>>)
          /\ analysis.gameStatus = Some("active")
          /\ analysis.totalCount = Some(0)
          /\ ~analysis.cancellationReason.has /\ ~analysis.whoseFault.has
          /\ Count(calls, "groq.analyze") = 0

C4_Witness ==
    /\ pc = "format"
    /\ Len(messages) = 0
    /\ analysis.totalCount = Some(0)
    /\ calls = <<"groq.intent", "groupme.messages">>

\* the text from its first "{" to its last "}", when it has both in that order
Embedded(text) ==
    LET lo == {i \in 1..Len(text) : text[i] = "{" /\ \A j \in 1..(i - 1) : text[j] # "{"}
        hi == {j \in 1..Len(text) : text[j] = "}" /\ \A k \in (j + 1)..Len(text) : text[k] # "}"}
    IN  {SubSeq(text, i, j) : <<i, j>> \in {q \in lo \X hi : q[1] < q[2]}}

WellFormed(text) == text \in {<<"{", "members", "}">>, <<"{", "}">>, <<"null">>}

\* the delegate behaviours of C5: the call failed, no content, or content
\* that parses neither directly nor after extracting the embedded object
UnusableReply(reply) ==
    \/ reply.kind \in {"throws", "undefined"}
    \/ reply.kind = "content" /\ reply.content = <<>>
    \/ /\ reply.kind = "content"
       /\ ~WellFormed(reply.content)
       /\ \A t \in Embedded(reply.content) : ~WellFormed(t)

\* C5: on a non-empty list an unusable reply never yields an outcome: the
\* error reaches the handler's catch, which answers 500 with that error.
C5_UnusableReplyFails ==
    /\ (trace = SubSeq(AddressedSteps, 1, 4) /\ Len(messages) > 0
           /\ pc \in {"format", "catch"} /\ UnusableReply(completion)) =>
          /\ pc = "catch"
          /\ analysis = None
          /\ error \in {"Groq API error", "No response from Groq API",
                        "Failed to parse JSON response", "SyntaxError"}
    /\ (pc = "done" /\ error # "none") =>
          response = [status |-> 500, error |-> "Internal server error",
                      message |-> error]

C5_Witness ==
    /\ pc = "catch"
    /\ Len(messages) > 0
    /\ completion.kind = "content"
    /\ completion.content = <<"}", "junk", "{">>
    /\ error = "Failed to parse JSON response"

\* C6: after a failure on the addressed path exactly one courtesy post is
\* attempted, whether or not it succeeds the caller receives the 500
\* acknowledgment, and no roster post follows the failure.
C6_OneCourtesyPostThen500 ==
    /\ Count(calls, "groupme.post:error") <= 1
    /\ (error = "none" \/ pc = "catch") => Count(calls, "groupme.post:error") = 0
    /\ (error # "none" /\ pc \in {"courtesy", "done"}) =>
          /\ Count(calls, "groupme.post:error") = 1
          /\ calls[Len(calls)] = "groupme.post:error"
    /\ (error # "none" /\ pc = "done") =>
          /\ response.status = 500
          /\ response = [status |-> 500, error |-> "Internal server error",
                         message |-> error]
    /\ \A i, j \in 1..Len(calls) :
          (i < j /\ calls[i] = "groupme.post:error") => calls[j] # "groupme.post:roster"
    /\ error # "none" => Count(calls, "groupme.post:roster") <= 1

C6_Witness ==
    /\ pc = "done"
    /\ trace = AddressedSteps \o <<"courtesy">>
    /\ error = "GroupMe API error"
    /\ postError = "GroupMe API error"
    /\ response.status = 500

\* C7: the addressed path runs classification, window resolution, history
\* fetch, analysis, formatting and roster post in this order, each at most
\* once and only while nothing has failed, and 'processed' is answered only
\* after all six ran and the roster post succeeded.
C7_StepsInOrder ==
    /\ IsPrefix(TrySteps(trace), AddressedSteps)
    /\ error # "none" => pc \in {"catch", "courtesy", "done"}
    /\ pc = "detectIntent" => trace = SubSeq(AddressedSteps, 1, 1)
    /\ pc = "window" => trace = SubSeq(AddressedSteps, 1, 1)
    /\ pc = "fetch" => trace = SubSeq(AddressedSteps, 1, 3)
    /\ pc = "analyze" => trace = SubSeq(AddressedSteps, 1, 4)
    /\ pc = "format" => trace = SubSeq(AddressedSteps, 1, 4)
    /\ pc = "post" => trace = AddressedSteps
    /\ \A c \in {"groq.intent", "groq.analyze", "groupme.post:roster"} :
          Count(calls, c) <= 1
    /\ (pc = "done" /\ response.status = 200 /\ response.action = "processed") =>
          /\ trace = AddressedSteps
          /\ error = "none"
          /\ calls[Len(calls)] = "groupme.post:roster"

C7_Witness ==
    /\ pc = "done"
    /\ response.status = 200
    /\ response.action = "processed"
    /\ calls = <<"groq.intent", "groupme.messages", "groq.analyze",
                 "groupme.post:roster">>

ConfigError == [status |-> 500, error |-> "Server configuration error"]

\* C8: with any of the four configuration values absent a request is
\* answered 500 'Server configuration error' before the payload is read and
\* without any external call (the Vercel handler answers 405 to a request
\* that is no POST before it looks at the configuration).
C8_ConfigMissingFailsFast ==
    /\ env # RequiredEnvVars =>
          /\ pc \in {"idle", "done"}
          /\ payload.kind = "unread"
          /\ calls = <<>> /\ trace = <<>>
          /\ (pc = "done" /\ response.status # 405) => response = ConfigError
    /\ response = ConfigError => env # RequiredEnvVars

C8_Witness ==
    /\ env = RequiredEnvVars \ {"GROUPME_BOT_ID"}
    /\ pc = "done"
    /\ response = ConfigError
    /\ calls = <<>>

\* C9 as stated: with the configuration present, a request whose payload is
\* missing or whose text is missing or empty is answered 400 'Invalid
\* payload' and no external call is made for it.
C9_MissingTextAnswered400 ==
    (payload.kind \in {"none", "null", "notext", "emptytext"} /\ pc = "done") =>
        /\ response = [status |-> 400, error |-> "Invalid payload"]
        /\ calls = <<>>

\* the day 00:00 of the most recent Wednesday at or before the instant
IsLatestWednesdayStart(date, now) ==
    /\ date % TicksPerDay = 0
    /\ ((date \div TicksPerDay) + 4) % 7 = 3
    /\ date <= now
    /\ (now \div TicksPerDay) - (date \div TicksPerDay) \in 0..6

Range(seq) == {seq[i] : i \in 1..Len(seq)}

\* C11 as stated: in every outcome analyzeMessages returns, no name is both
\* in withdrawnPlayers and in confirmedPlayers, whatever the delegate replied.
C11_NoNameConfirmedAndWithdrawn ==
    analysis # None =>
        Range(analysis.withdrawnPlayers.v) \cap Range(analysis.confirmedPlayers.v) = {}

\* C12 as stated: every outcome analyzeMessages returns has its three lists
\* (empty when the reply omitted them) and a gameStatus that is 'active' or
\* 'cancelled' ('active' when the reply omitted it), whatever the delegate
\* replied.
C12_OutcomeWellShaped ==
    /\ analysis # None =>
          /\ analysis.confirmedPlayers.has
          /\ analysis.plusOnes.has
          /\ analysis.withdrawnPlayers.has
          /\ analysis.gameStatus.has
          /\ analysis.gameStatus.v \in {"active", "cancelled"}
    /\ (pc = "format" /\ completion.kind = "content") =>
          /\ ~completion.obj.confirmedPlayers.has => analysis.confirmedPlayers.v = <<>>
          /\ ~completion.obj.plusOnes.has => analysis.plusOnes.v = <<>>
          /\ ~completion.obj.withdrawnPlayers.has => analysis.withdrawnPlayers.v = <<>>
          /\ ~completion.obj.gameStatus.has => analysis.gameStatus.v = "active"

\* C13 as stated: cancellationReason and whoseFault are absent from the
\* returned outcome whenever the reply did not produce them, also when the
\* outcome is cancelled.
C13_OptionalAbsentUnlessProduced ==
    /\ (pc = "format" /\ completion.kind = "content") =>
          /\ ~completion.obj.cancellationReason.has => ~analysis.cancellationReason.has
          /\ ~completion.obj.whoseFault.has => ~analysis.whoseFault.has
    /\ (pc = "format" /\ completion.kind # "content") =>
          ~analysis.cancellationReason.has /\ ~analysis.whoseFault.has

\* C13 amended: cancellationReason is in the returned outcome exactly as the
\* reply produced it and absent otherwise; whoseFault likewise, except that
\* the client with the attribution member sets it to 'When in doubt, Miles'
\* on a cancelled outcome whose reply did not produce it.
C13_OptionalFromReplyOrDefaultFault ==
    /\ (pc = "format" /\ completion.kind = "content") =>
          /\ analysis.cancellationReason = completion.obj.cancellationReason
          /\ analysis.whoseFault =
                IF groqVariant = "part_001" /\ analysis.gameStatus.v = "cancelled"
                   /\ ~completion.obj.whoseFault.has
                THEN Some("When in doubt, Miles")
                ELSE completion.obj.whoseFault
    /\ (pc = "format" /\ completion.kind # "content") =>
          ~analysis.cancellationReason.has /\ ~analysis.whoseFault.has

C13_Witness ==
    /\ pc = "format"
    /\ groqVariant = "part_001"
    /\ completion.kind = "content"
    /\ completion.obj.gameStatus = Some("cancelled")
    /\ ~completion.obj.whoseFault.has
    /\ ~completion.obj.cancellationReason.has
    /\ analysis.whoseFault = Some("When in doubt, Miles")
    /\ ~analysis.cancellationReason.has

\* the kinds of the lines that open a section, in the order of the text
Headings(text) ==
    LET IsHeading(r) == r.line \in {"header", "confirmed", "confirmed-none", "plusOnes",
                                    "withdrawn", "cancelled", "ready", "need"}
        opening == SelectSeq(text, IsHeading)
    IN  [i \in 1..Len(opening) |->
            CASE opening[i].line = "confirmed-none" -> "confirmed"
              [] opening[i].line \in {"cancelled", "ready", "need"} -> "status"
              [] OTHER -> opening[i].line]

LinesOf(text, kind) == {i \in 1..Len(text) : text[i].line = kind}

C14_WitnessOneMore ==
    /\ pc = "post"
    /\ analysis.gameStatus.v = "active"
    /\ analysis.totalCount.v = 9
    /\ responseText[Len(responseText)].line = "need"
    /\ ~responseText[Len(responseText)].plural

\* C15: the text has its sections in the order header, confirmed players,
\* +1 guests, withdrawn players, status; the confirmed section is always
\* there and shows 'None' for an empty list, the +1 section is there exactly
\* when plusOnes is non-empty and phrases an entry '+1' for one guest and
\* '+N' for N > 1, the withdrawn section is there exactly when
\* withdrawnPlayers is non-empty, and there is exactly one status line,
\* after which only the reason of a cancellation can follow.
C15_SectionsInFixedOrder ==
    pc = "post" =>
        LET t == responseText
            status == LinesOf(t, "cancelled") \cup LinesOf(t, "ready")
                      \cup LinesOf(t, "need")
        IN  /\ Headings(t) =
                  <<"header", "confirmed">>
                  \o (IF Len(analysis.plusOnes.v) > 0 THEN <<"plusOnes">> ELSE <<>>)
                  \o (IF Len(analysis.withdrawnPlayers.v) > 0 THEN <<"withdrawn">>
                      ELSE <<>>)
                  \o <<"status">>
            /\ t[1].line = "header"
            /\ LinesOf(t, "confirmed-none") # {} <=> Len(analysis.confirmedPlayers.v) = 0
            /\ Cardinality(LinesOf(t, "player")) = Len(analysis.confirmedPlayers.v)
            /\ Cardinality(LinesOf(t, "guest")) = Len(analysis.plusOnes.v)
            /\ Cardinality(LinesOf(t, "out")) = Len(analysis.withdrawnPlayers.v)
            /\ \A i \in LinesOf(t, "guest") :
                  \E k \in 1..Len(analysis.plusOnes.v) :
                      LET g == analysis.plusOnes.v[k].guestCount
                      IN  /\ t[i].inviter = analysis.plusOnes.v[k].inviter
                          /\ (g.has /\ g.v = 1) => t[i].plus = 1
                          /\ (g.has /\ g.v > 1) => t[i].plus = g.v
            /\ Cardinality(status) = 1
            /\ \A i \in status : \A j \in (i + 1)..Len(t) :
                  t[j].line = "reason" /\ t[i].line = "cancelled"

C15_Witness ==
    /\ pc = "post"
    /\ Len(analysis.confirmedPlayers.v) = 0
    /\ Len(analysis.plusOnes.v) = 1
    /\ analysis.plusOnes.v[1].guestCount = Some(3)
    /\ Len(analysis.withdrawnPlayers.v) = 1
    /\ Headings(responseText) =
          <<"header", "confirmed", "plusOnes", "withdrawn", "status">>
    /\ \E i \in LinesOf(responseText, "guest") : responseText[i].plus = 3

\* C16 as stated: the header of the text names the window resolved from the
\* intent: last week for a request classified last_week, this week for one
\* classified this_week.
C16_HeaderNamesResolvedWindow ==
    pc = "post" =>
        responseText[1] =
            [line |-> "header",
             text |-> IF intent = "last_week" THEN "Last Week's Roster"
                      ELSE "This Week's Roster"]

\* C17 as stated: for a cancelled outcome the status line shows the
\* cancellation and never ready or need-more, followed by the reason when
\* the outcome has one and by the attribution when it has one; the other
\* sections render by their own rules.
C17_CancelledShowsReasonAndFault ==
    (pc = "post" /\ analysis.gameStatus.v = "cancelled") =>
        LET t == responseText
        IN  /\ Cardinality(LinesOf(t, "cancelled")) = 1
            /\ LinesOf(t, "ready") = {} /\ LinesOf(t, "need") = {}
            /\ analysis.cancellationReason.has <=> LinesOf(t, "reason") # {}
            /\ \A i \in LinesOf(t, "reason") :
                  /\ t[i].text = analysis.cancellationReason.v
                  /\ \E j \in LinesOf(t, "cancelled") : j < i
            /\ analysis.whoseFault.has <=>
                  \E i \in 1..Len(t) :
                      /\ t[i].line = "fault"
                      /\ t[i].text = analysis.whoseFault.v
                      /\ \E j \in LinesOf(t, "cancelled") : j < i
            /\ LinesOf(t, "plusOnes") # {} <=> Len(analysis.plusOnes.v) > 0
            /\ LinesOf(t, "withdrawn") # {} <=> Len(analysis.withdrawnPlayers.v) > 0

\* C20 as stated: getLastWednesday returns last week's Wednesday (the day 7
\* days before today) when today is Wednesday and the most recent Wednesday
\* otherwise, so the window never starts at the current week's Wednesday.
C20_LastWednesdayIsPreviousWeek ==
    pc = "fetch" =>
        LET lastWednesday == getLastWednesday(clock)
        IN  /\ getDay(lastWednesday) = 3
            /\ lastWednesday % TicksPerDay = 0
            /\ IF getDay(clock) = 3
               THEN DayOf(lastWednesday) = DayOf(clock) - 7
               ELSE DayOf(clock) - DayOf(lastWednesday) \in 1..6

\* C18: the list handed to analyzeMessages is ascending in time and holds
\* only messages of [start, end): given a platform that serves its history
\* newest first, none older than the start of the window and none at or
\* after its end (the latest Wednesday, for the last-week window).
C18_HandedListAscendingInWindow ==
    /\ (pc = "fetch" /\ fetcher.phase = "returned" /\ fetcher.platform = "ordered") =>
          LET r == fetcher.result
          IN  /\ \A i, j \in 1..Len(r) : i < j => r[i].created_at <= r[j].created_at
              /\ \A i \in 1..Len(r) :
                    /\ dateRange.start <= r[i].created_at
                    /\ r[i].created_at < dateRange.end
              /\ \A i \in 1..Len(r) : \E k \in 1..Len(fetcher.history) :
                    fetcher.history[k] = r[i]
              /\ intent = "last_week" =>
                    \A i \in 1..Len(r) :
                        r[i].created_at < getLatestWednesday(clock)
    /\ (pc = "analyze" /\ fetcher.phase = "returned") => messages = fetcher.result

C18_Witness ==
    /\ pc = "fetch"
    /\ fetcher.phase = "returned"
    /\ fetcher.platform = "ordered"
    /\ intent = "last_week"
    /\ Len(fetcher.history) = 3
    /\ fetcher.history[1].created_at >= dateRange.end
    /\ fetcher.history[3].created_at < dateRange.start
    /\ fetcher.result = <<fetcher.history[2]>>

C18_WitnessTwoPages ==
    /\ pc = "analyze"
    /\ fetcher.platform = "ordered"
    /\ fetcher.requests = 2
    /\ Len(messages) = 2
    /\ messages[1].created_at < messages[2].created_at

\* the loop of the fetch is still asking for pages
Paging == pc = "fetch" /\ fetcher.phase = "loop"

C19_LoopStopsWhenItShould ==
    /\ fetcher.requests <= MaxAccumulated + 1
    /\ (Paging /\ fetcher.requests > 0) =>
          /\ Len(fetcher.page) > 0
          /\ ~reachedSince(fetcher.page, dateRange.start)
          /\ Len(fetcher.allMessages) <= MaxAccumulated
          /\ Len(fetcher.allMessages) >= fetcher.requests
    /\ (pc = "fetch" /\ fetcher.phase = "returned") =>
          \/ Len(fetcher.page) = 0
          \/ reachedSince(fetcher.page, dateRange.start)
          \/ Len(fetcher.allMessages) > MaxAccumulated

\* C19: the pagination loop ends whatever the platform answers: no page is
\* requested after an empty page or a page whose oldest message is older
\* than the start of the window, the loop otherwise stops once more than
\* the cap of messages are accumulated, and so a fetch makes at most
\* cap + 1 requests.
C19_FetchTerminates ==
    /\ []C19_LoopStopsWhenItShould
    /\ Paging ~> ~Paging

C19_Witness ==
    /\ pc = "fetch"
    /\ fetcher.platform = "arbitrary"
    /\ fetcher.phase = "returned"
    /\ fetcher.requests = MaxAccumulated + 1
    /\ Len(fetcher.page) > 0
    /\ ~reachedSince(fetcher.page, dateRange.start)
    /\ Len(fetcher.allMessages) > MaxAccumulated

\* C21: the last-week window is fetched exactly when the classified intent
\* is 'last_week'; for this_week, and for generic_question where the
\* classifier can return it, the this-week window is fetched; and the intent
\* in the 'processed' acknowledgment is the intent that selected the window.
C21_WindowSelectedByIntent ==
    /\ pc = "fetch" =>
          /\ intent \in ClosedIntentSet
          /\ dateRange = getLastWeekRange(clock) <=> intent = "last_week"
          /\ dateRange = getThisWeekRange(clock) <=>
                intent \in {"this_week", "generic_question"}
          /\ calls[Len(calls)] = "groupme.messages"
          /\ Count(calls, "groupme.messages") = 1
    /\ (pc = "done" /\ response.status = 200 /\ response.action = "processed") =>
          /\ response.intent = intent
          /\ Count(calls, "groupme.messages") = 1

C21_Witness ==
    /\ pc = "fetch"
    /\ groqVariant = "part_001"
    /\ intent = "generic_question"
    /\ dateRange = getThisWeekRange(clock)
    /\ dateRange # getLastWeekRange(clock)

ChatPosts == {"groupme.post:roster", "groupme.post:error"}

\* C22 as stated: a chat post, roster or courtesy error message, is attempted
\* only for a request whose message was found to be addressed to the bot; a
\* request that fails before or at the addressed check (unreadable body,
\* missing text, not addressed) never causes a post.
C22_PostOnlyWhenAddressed ==
    /\ (\E i \in 1..Len(calls) : calls[i] \in ChatPosts) =>
          /\ trace # <<>>
          /\ trace[1] = "detectIntent"
    /\ (payload.kind \in {"none", "invalid", "null", "notext", "emptytext",
                          "nonstring"}
           \/ (payload.kind = "text" /\ ~isBotMentioned(payload.text, BOT_NAME))) =>
          \A i \in 1..Len(calls) : calls[i] \notin ChatPosts

\* the request being handled is the callback for a post of the bot itself
OwnPostDelivered == "sender_type" \in DOMAIN payload /\ payload.sender_type = "bot"

\* C23 as stated: a message the bot itself posted, roster or courtesy text,
\* that is delivered back to the webhook is ignored: it starts no
\* classification, no fetch and no further chat post.
C23_OwnPostIgnored ==
    OwnPostDelivered =>
        /\ pc = "done"
        /\ response = Ignored
        /\ calls = <<>>
        /\ trace = <<>>

====
